---- MODULE Spec2Model ----
(***************************************************************************)
(* A state-machine model of src/model/layer.py: the CompGCNCov layer, the  *)
(* caller's graph g, and the module-level name rel that forward reads.     *)
(*                                                                         *)
(* Numbers.  Feature values, weights and relation rows are integers.  A    *)
(* degree-normalisation value is kept exactly, by its code: the code n > 0 *)
(* stands for n ** -0.5, the code 0 for 0.0, Inf for +inf and NaN for nan, *)
(* so the product of two values is the product of their codes.  A hidden   *)
(* state is kept as the linear combination the code sums: a function from  *)
(* norm codes to integer vectors, with the divisor of reduce_func beside   *)
(* it.  Nodes are numbered from 1 (the code numbers them from 0); edge     *)
(* types and directions keep the code's values.                            *)
(***************************************************************************)
EXTENDS Integers, Sequences, FiniteSets, TLC

\* ---------------------------------------------------------------- bounds
MaxV == 2
MaxE == 2
NumRel == 1
MaxChannels == 2
MaxBatches == 1

\* ------------------------------------------------------------- constants
SelfLoopDir == 2
NumDirs == 3
Divisor == 3

VARIABLES layer, g, rel, shares, ret

vars == <<layer, g, rel, shares, ret>>

Inf == -1
NaN == -2

Nodes(gr) == 1..gr.n
Edges(gr) == 1..Len(gr.src)
Channels == 1..MaxChannels
Opns == {"mult", "sub", "corr"}
RelRows == 2 * NumRel

\* ------------------------------------------------------ tensor arithmetic
\* the same sequence, with its entries computed once
Seq1(t) == SubSeq(t, 1, Len(t))

RECURSIVE SumTo(_, _)
SumTo(f, n) == IF n = 0 THEN 0 ELSE f[n] + SumTo(f, n - 1)

\* row vector times matrix, both with integer entries
VecMat(v, m) ==
    Seq1([j \in 1..Len(m[1]) |-> SumTo(Seq1([i \in 1..Len(v) |-> v[i] * m[i][j]]), Len(v))])

Zeros(n) == [j \in 1..n |-> 0]

\* in_deg ** -0.5 on one entry: 0 ** -0.5 is +inf
InvSqrt(d) == IF d = 0 THEN Inf ELSE d

\* norm[np.isinf(norm)] = 0 on one entry
ZeroInf(c) == IF c = Inf THEN 0 ELSE c

\* the product of two normalisation values, on their codes
Mul(a, b) ==
    IF a = NaN \/ b = NaN THEN NaN
    ELSE IF a = Inf \/ b = Inf THEN (IF a = 0 \/ b = 0 THEN NaN ELSE Inf)
    ELSE a * b

\* tensor.squeeze() of a 1-D tensor: a single entry becomes a 0-dim scalar
Squeeze1(t) == IF Len(t) = 1 THEN [dim |-> 0, val |-> <<t[1]>>] ELSE [dim |-> 1, val |-> t]

\* -------------------------------------------------------------- the graph
NoFields == [k \in {} |-> <<>>]

Put(f, k, v) == [j \in (DOMAIN f) \cup {k} |-> IF j = k THEN v ELSE f[j]]

\* dgl.DGLGraph() followed by add_nodes(n)
NewGraph(n) == [n |-> n, src |-> <<>>, dst |-> <<>>, ndata |-> NoFields, edata |-> NoFields]

in_degrees(gr) == Seq1([v \in Nodes(gr) |-> Cardinality({e \in Edges(gr) : gr.dst[e] = v})])

\* DGLGraph.add_edges(us, vs): the structure grows, every edge field gets zero rows
AddEdgesTo(gr, us, vs) ==
    [gr EXCEPT !.src = gr.src \o us,
               !.dst = gr.dst \o vs,
               !.edata = [k \in DOMAIN gr.edata |-> gr.edata[k] \o [i \in 1..Len(us) |-> 0]]]

\* ---------------------------------------------------------- compute_norm
\* the per-node value: in_degree ** -0.5 with inf replaced by 0
NodeNormBad(gr, v) == InvSqrt(in_degrees(gr)[v])
NodeNorm(gr, v) == ZeroInf(InvSqrt(in_degrees(gr)[v]))

\* the edge function given to apply_edges: dst value times src value
EdgeNorm(nd, u, v) == Mul(nd[v], nd[u])

\* compute_norm(g): g.local_var() is called and its result dropped, so the
\* 'xxx' fields are written into the graph that was passed in
compute_normSelfLoops(gr) ==
    LET lp == [i \in 1..gr.n |-> i]
        gl == AddEdgesTo(gr, lp, lp)
        nd == Seq1([v \in Nodes(gl) |-> NodeNorm(gl, v)])
        ed == Seq1([e \in Edges(gl) |-> EdgeNorm(nd, gl.src[e], gl.dst[e])])
    IN  [g |-> [gl EXCEPT !.ndata = Put(gl.ndata, "xxx", nd),
                          !.edata = Put(gl.edata, "xxx", ed)],
         norm |-> Squeeze1(ed)]
compute_norm(gr) ==
    LET nd == Seq1([v \in Nodes(gr) |-> NodeNorm(gr, v)])
        ed == Seq1([e \in Edges(gr) |-> EdgeNorm(nd, gr.src[e], gr.dst[e])])
    IN  [g |-> [gr EXCEPT !.ndata = Put(gr.ndata, "xxx", nd),
                          !.edata = Put(gr.edata, "xxx", ed)],
         norm |-> Squeeze1(ed)]

\* ------------------------------------------------------------ the layer
\* get_param: a tensor of the given shape with initialised (nonzero) entries
w_param(in, out) == [d \in 1..NumDirs |-> [i \in 1..in |-> [j \in 1..out |-> d + 2 * i + 3 * j]]]
w_rel_param(in, out) == [i \in 1..in |-> [j \in 1..out |-> 2 * i + j]]
loop_rel_param(in) == [k \in 1..in |-> 4 + k]

\* the state __init__ leaves: device and rel are None (here "None" and <<>>),
\* the module is in training mode, batch norm has seen no batch
NewLayer(in, out, bias, drop_rate, opn) ==
    [in_channels |-> in, out_channels |-> out, opn |-> opn, bias |-> bias,
     drop_rate |-> drop_rate, training |-> TRUE, device |-> "None", rel |-> <<>>,
     num_batches_tracked |-> 0]

\* comp(h, edge_data) on two [E, in_channels] batches
compNoRaise(opn, h, edge_data) ==
    [raise |-> "",
     val |-> Seq1([e \in 1..Len(h) |-> Seq1([k \in 1..Len(h[e]) |-> h[e][k] * edge_data[e][k]])])]
comp(opn, h, edge_data) ==
    IF opn = "mult"
    THEN [raise |-> "",
          val |-> Seq1([e \in 1..Len(h) |-> Seq1([k \in 1..Len(h[e]) |-> h[e][k] * edge_data[e][k]])])]
    ELSE IF opn = "sub"
    THEN [raise |-> "",
          val |-> Seq1([e \in 1..Len(h) |-> Seq1([k \in 1..Len(h[e]) |-> h[e][k] - edge_data[e][k]])])]
    ELSE [raise |-> "NotImplementedError", val |-> <<>>]

\* message_func on the batch of all edges of the working graph wg.
\* The lookups self.rel[edge_type] and self.w[edge_dir.squeeze()] raise on an
\* index out of range; with a single edge edge_dir.squeeze() is 0-dim, self.w[..]
\* is 2-D and torch.bmm raises; .squeeze() on the [E, 1, out] product drops the
\* channel dimension when out_channels = 1, and the product with the [E, 1]
\* norm then broadcasts to [E, E].
message_func(lay, wg) ==
    LET E == Len(wg.src)
        type == wg.edata["type"]
        dir == wg.edata["dir"]
        norm == wg.edata["norm"]
        h == wg.ndata["h"]
        w == Seq1(w_param(lay.in_channels, lay.out_channels))
        typeOk == \A e \in 1..E : type[e] \in 0..(Len(lay.rel) - 1)
        dirOk == \A e \in 1..E : dir[e] \in 0..(NumDirs - 1)
        edge_data == comp(lay.opn, Seq1([e \in 1..E |-> h[wg.src[e]]]),
                          Seq1([e \in 1..E |-> lay.rel[type[e] + 1]]))
        m == Seq1([e \in 1..E |-> VecMat(edge_data.val[e], w[dir[e] + 1])])
        msg == Seq1([e \in 1..E |->
                  [vec |-> IF lay.out_channels = 1 THEN Seq1([j \in 1..E |-> m[j][1]]) ELSE m[e],
                   norm |-> norm[e]]])
    IN  IF ~typeOk THEN [raise |-> "IndexError", line |-> 37, msg |-> <<>>]
        ELSE IF edge_data.raise # "" THEN [raise |-> edge_data.raise, line |-> 52, msg |-> <<>>]
        ELSE IF ~dirOk THEN [raise |-> "IndexError", line |-> 39, msg |-> <<>>]
        ELSE IF E = 1 THEN [raise |-> "RuntimeError", line |-> 38, msg |-> <<>>]
        ELSE [raise |-> "", line |-> 0, msg |-> msg]

\* fn.sum(msg='msg', out='h') at node v: the sum of norm * vec over the edges into
\* v, kept by norm code (a message of norm 0.0 adds nothing)
SumInto(wg, msg, v) ==
    LET E == Len(wg.src)
        keys == {msg[e].norm : e \in {i \in 1..E : wg.dst[i] = v /\ msg[i].norm # 0}}
        width == Len(msg[1].vec)
    IN  [k \in keys |->
           [j \in 1..width |->
              SumTo(Seq1([e \in 1..E |-> IF wg.dst[e] = v /\ msg[e].norm = k
                                          THEN msg[e].vec[j] ELSE 0]), E)]]

\* self.drop: the identity unless training with a positive rate; rate 1 zeroes
drop(lay, t) == IF lay.training /\ lay.drop_rate = 1 THEN NoFields ELSE t

\* reduce_func: dropout, then the division by 3
reduce_func(lay, hv) == [num |-> drop(lay, hv), den |-> Divisor]

\* ---------------------------------------------------------------- forward
\* g.local_var(): a graph object with its own field dictionaries, holding the
\* fields of gr; whether it also has its own structure is the variable shares
local_var(gr) == [n |-> gr.n, src |-> gr.src, dst |-> gr.dst,
                  ndata |-> [k \in DOMAIN gr.ndata |-> gr.ndata[k]],
                  edata |-> [k \in DOMAIN gr.edata |-> gr.edata[k]]]

\* lines 78-79: the norm of the edges passed in, then one self-loop per node
self_loops_then_norm(g1) ==
    LET lp == [i \in 1..g1.n |-> i]
        cn == compute_norm(AddEdgesTo(g1, lp, lp))
    IN  [g |-> cn.g, norm |-> cn.norm]
norm_then_self_loops(g1) ==
    LET lp == [i \in 1..g1.n |-> i]
        cn == compute_norm(g1)
    IN  [g |-> AddEdgesTo(cn.g, lp, lp), norm |-> cn.norm]

\* line 81: the relation id given to every self-loop edge, rel_repr.shape[0]
self_loop_typeOff(rel_repr) == Len(rel_repr) + 1
self_loop_type(rel_repr) == Len(rel_repr)

NoTensor == [shape |-> <<0>>, val |-> <<>>]

\* line 95, second component: torch.matmul(rel, self.w_rel)[:, -1], where rel
\* is the module-level name (relg), not a parameter or local of forward
rel_output(lay, relg) ==
    LET w_rel == w_rel_param(lay.in_channels, lay.out_channels)
    IN  IF relg.kind = "undefined" THEN [raise |-> "NameError", val |-> NoTensor]
        ELSE IF relg.kind = "vector"
        THEN [raise |-> IF Len(relg.val) = lay.in_channels THEN "IndexError" ELSE "RuntimeError",
              val |-> NoTensor]
        ELSE IF \E r \in 1..Len(relg.val) : Len(relg.val[r]) # lay.in_channels
        THEN [raise |-> "RuntimeError", val |-> NoTensor]
        ELSE [raise |-> "",
              val |-> [shape |-> <<Len(relg.val)>>,
                       val |-> Seq1([r \in 1..Len(relg.val) |->
                                        VecMat(relg.val[r], w_rel)[lay.out_channels]])]]

NoArgs == [g |-> NewGraph(0), x |-> <<>>, rel_repr |-> <<>>, edge_type |-> <<>>, edge_dir |-> <<>>]

NoNorm == [dim |-> 1, val |-> <<>>]

Blank == [op |-> "", args |-> NoArgs, err |-> "", line |-> 0, work |-> NewGraph(0),
          norm |-> NoNorm, h |-> <<>>, out_x |-> <<>>, out_rel |-> NoTensor, val |-> <<>>]

\* forward(g, x, rel_repr, edge_type, edge_dir) on layer lay with the module-level
\* rel being relg: the layer as the call leaves it, and the record of the call
\* (its arguments, its locals, what it returned or the exception it raised)
forward(lay, gr, x, rel_repr, edge_type, edge_dir, relg) ==
    LET V == gr.n
        lay1 == [lay EXCEPT !.device = "cpu"]
        g1 == [local_var(gr) EXCEPT !.ndata = Put(@, "h", x)]
        nl == norm_then_self_loops(g1)
        E2 == Len(nl.g.src)
        slt == [i \in 1..V |-> self_loop_type(rel_repr)]
        sld == [i \in 1..V |-> SelfLoopDir]
        sln == [i \in 1..V |-> 1]
        g4 == [nl.g EXCEPT !.edata = Put(Put(@, "type", edge_type \o slt), "dir", edge_dir \o sld)]
        g5 == [g4 EXCEPT !.edata = Put(@, "norm", nl.norm.val \o sln)]
        lay2 == [lay1 EXCEPT !.rel = rel_repr \o <<loop_rel_param(lay.in_channels)>>]
        mf == message_func(lay2, g5)
        h == Seq1([v \in 1..V |-> reduce_func(lay2, SumInto(g5, mf.msg, v))])
        g6 == [g5 EXCEPT !.ndata = Put(@, "h", h)]
        width == IF lay.out_channels = 1 THEN E2 ELSE lay.out_channels
        lay3 == [lay2 EXCEPT !.num_batches_tracked = IF lay.training THEN @ + 1 ELSE @]
        xo == [h |-> h,
               bias |-> IF lay.bias THEN Zeros(lay.out_channels) ELSE <<>>,
               bn |-> [training |-> lay.training, seen |-> lay.num_batches_tracked]]
        ro == rel_output(lay3, relg)
        base == [Blank EXCEPT !.op = "forward",
                              !.args = [g |-> gr, x |-> x, rel_repr |-> rel_repr,
                                        edge_type |-> edge_type, edge_dir |-> edge_dir],
                              !.norm = nl.norm]
    IN  IF Len(edge_type \o slt) # E2 \/ Len(edge_dir \o sld) # E2
        THEN [layer |-> lay1,
              call |-> [base EXCEPT !.err = "DGLError", !.line = 84, !.work = nl.g]]
        ELSE IF nl.norm.dim = 0
        THEN [layer |-> lay1,
              call |-> [base EXCEPT !.err = "RuntimeError", !.line = 86, !.work = g4]]
        ELSE IF Len(nl.norm.val \o sln) # E2
        THEN [layer |-> lay1,
              call |-> [base EXCEPT !.err = "DGLError", !.line = 86, !.work = g4]]
        ELSE IF mf.raise # ""
        THEN [layer |-> lay2,
              call |-> [base EXCEPT !.err = mf.raise, !.line = mf.line, !.work = g5]]
        ELSE IF width # lay.out_channels
        THEN [layer |-> lay3,
              call |-> [base EXCEPT !.err = "RuntimeError", !.line = 94, !.work = g6, !.h = h]]
        ELSE IF ro.raise # ""
        THEN [layer |-> lay3,
              call |-> [base EXCEPT !.err = ro.raise, !.line = 95, !.work = g6, !.h = h]]
        ELSE [layer |-> lay3,
              call |-> [base EXCEPT !.work = g6, !.h = h, !.out_x = xo, !.out_rel = ro.val]]

\* ----------------------------------------------------------------- inputs
\* the tensors a caller passes: x is [V, in], rel_repr is [2R, in], edge_type has
\* values in [0, 2R) and edge_dir values in {0, 1}, one per edge of the graph
XInput(s, V, in) == [u \in 1..V |-> [k \in 1..in |-> u + 2 * k + s]]
RelInput(s, in) == [r \in 1..RelRows |-> [k \in 1..in |-> r + k + 2 * s]]
TypeInput(t0, E) == [e \in 1..E |-> (t0 + e) % RelRows]
DirInput(s, E) == [e \in 1..E |-> (s + e) % 2]

\* ---------------------------------------------------------------- actions
\* nn.Module.train() and nn.Module.eval() on the layer
Train ==
    /\ ~layer.training
    /\ layer' = [layer EXCEPT !.training = TRUE]
    /\ ret' = [Blank EXCEPT !.op = "train"]
    /\ UNCHANGED <<g, rel, shares>>

Eval ==
    /\ layer.training
    /\ layer' = [layer EXCEPT !.training = FALSE]
    /\ ret' = [Blank EXCEPT !.op = "eval"]
    /\ UNCHANGED <<g, rel, shares>>

\* g = dgl.DGLGraph(); g.add_nodes(n)
G_new ==
    \E n \in 1..MaxV :
        /\ g' = NewGraph(n)
        /\ ret' = [Blank EXCEPT !.op = "add_nodes"]
        /\ UNCHANGED <<layer, rel, shares>>

\* g.add_edges(u, v) by the caller, who keeps the graph free of self-loops
G_add_edges ==
    \E u \in Nodes(g), v \in Nodes(g) :
        /\ u # v
        /\ Len(g.src) < MaxE
        /\ g' = AddEdgesTo(g, <<u>>, <<v>>)
        /\ ret' = [Blank EXCEPT !.op = "add_edges"]
        /\ UNCHANGED <<layer, rel, shares>>

\* g.add_edges(u, u): a caller who puts a self-loop into the graph
G_add_loop ==
    \E u \in Nodes(g) :
        /\ Len(g.src) < MaxE
        /\ g' = AddEdgesTo(g, <<u>>, <<u>>)
        /\ ret' = [Blank EXCEPT !.op = "add_edges"]
        /\ UNCHANGED <<layer, rel, shares>>

\* a direct call compute_norm(g) on the caller's graph
Call_compute_norm ==
    LET cn == compute_norm(g)
    IN  /\ g' = cn.g
        /\ ret' = [Blank EXCEPT !.op = "compute_norm", !.args = [NoArgs EXCEPT !.g = g],
                                !.norm = cn.norm]
        /\ UNCHANGED <<layer, rel, shares>>

\* a direct call comp(h, edge_data) on two [V, in] batches
Call_comp ==
    \E s \in 0..1 :
        LET h == XInput(s, g.n, layer.in_channels)
            ed == XInput(1 - s, g.n, layer.in_channels)
            c == comp(layer.opn, h, ed)
        IN  /\ ret' = [Blank EXCEPT !.op = "comp",
                                    !.args = [NoArgs EXCEPT !.x = h, !.rel_repr = ed],
                                    !.err = c.raise, !.line = IF c.raise = "" THEN 0 ELSE 52,
                                    !.val = c.val]
            /\ UNCHANGED <<layer, g, rel, shares>>

\* what a forward call leaves behind: the layer as the call left it, the record of
\* the call, and the self-loops in the caller's graph when its structure is the
\* one the local graph object holds
AfterForward(r) ==
    /\ layer' = r.layer
    /\ ret' = r.call
    /\ g' = IF shares THEN [g EXCEPT !.src = r.call.work.src, !.dst = r.call.work.dst] ELSE g

\* layer(g, x, rel_repr, edge_type, edge_dir) from a caller outside the module
Call_forward ==
    \E s \in 0..1, t0 \in {0, RelRows - 1} :
        /\ Len(g.src) <= MaxE
        /\ layer.training => layer.num_batches_tracked < MaxBatches
        /\ AfterForward(forward(layer, g, XInput(s, g.n, layer.in_channels),
                                RelInput(s, layer.in_channels),
                                TypeInput(t0, Len(g.src)), DirInput(s, Len(g.src)), rel))
        /\ UNCHANGED <<rel, shares>>

\* line 120 of the module run as a script: rel = torch.randn([2R, in])
Main_rel ==
    \E s \in 0..1 :
        /\ rel' = [kind |-> "matrix", val |-> RelInput(s, layer.in_channels)]
        /\ ret' = [Blank EXCEPT !.op = "rel"]
        /\ UNCHANGED <<layer, g, shares>>

\* line 121 of the module run as a script: x, rel = compgcn(g, x, rel, ...); the
\* second result is bound to the module-level rel when the call returns
Main_forward ==
    \E s \in 0..1, t0 \in {0, RelRows - 1} :
        /\ rel.kind = "matrix"
        /\ Len(rel.val) = RelRows
        /\ \A r \in 1..RelRows : Len(rel.val[r]) = layer.in_channels
        /\ Len(g.src) <= MaxE
        /\ layer.training => layer.num_batches_tracked < MaxBatches
        /\ LET r == forward(layer, g, XInput(s, g.n, layer.in_channels), rel.val,
                            TypeInput(t0, Len(g.src)), DirInput(s, Len(g.src)), rel)
           IN  /\ AfterForward(r)
               /\ rel' = IF r.call.err = "" THEN [kind |-> "vector", val |-> r.call.out_rel.val]
                         ELSE rel
        /\ UNCHANGED shares

\* --------------------------------------------------------- specifications
\* the state after CompGCNCov(in, out, bias=.., drop_rate=.., opn=..) has built
\* the layer lay, beside a fresh graph of the caller; __init__ keeps the operator
\* tag as it is given and raises nothing
InitWith(lay) ==
    /\ layer = lay
    /\ g \in {NewGraph(n) : n \in 1..MaxV}
    /\ rel = [kind |-> "undefined", val |-> <<>>]
    /\ shares \in BOOLEAN
    /\ ret = [Blank EXCEPT !.op = "__init__"]

Init ==
    \E in \in Channels, out \in Channels, bias \in BOOLEAN, dr \in {0, 1}, opn \in Opns :
        InitWith(NewLayer(in, out, bias, dr, opn))

\* the layer of the script, CompGCNCov(in_channels, out_channels), scaled down
InitScript == InitWith(NewLayer(MaxChannels, MaxChannels, TRUE, 0, "mult"))

\* any layer, the composition operator and forward calls from outside the module
Next ==
    \/ Train
    \/ Eval
    \/ Call_comp
    \/ G_add_edges
    \/ Call_forward

Spec == Init /\ [][Next]_vars

\* the script's layer built with each operator tag, in training mode
InitOpn == \E opn \in Opns : InitWith(NewLayer(MaxChannels, MaxChannels, TRUE, 0, opn))

NextOpn ==
    \/ G_new
    \/ G_add_edges
    \/ Call_comp
    \/ Call_forward

SpecOpn == InitOpn /\ [][NextOpn]_vars

\* the layer of the script under forward calls from outside the module
NextWork ==
    \/ Eval
    \/ G_new
    \/ G_add_edges
    \/ Call_forward

SpecWork == InitScript /\ [][NextWork]_vars

\* graph building and the normalisation
NextNorm ==
    \/ G_new
    \/ G_add_edges
    \/ G_add_loop
    \/ Call_compute_norm

SpecNorm == InitScript /\ [][NextNorm]_vars

\* the module run as a script, with later calls on the same layer
NextMain ==
    \/ Train
    \/ Eval
    \/ G_new
    \/ G_add_edges
    \/ Main_rel
    \/ Main_forward
    \/ Call_forward

SpecMain == InitScript /\ [][NextMain]_vars

\* ------------------------------------------------------------- properties
\* the number of edges of gr that point at v
InDeg(gr, v) == Cardinality({e \in Edges(gr) : gr.dst[e] = v})

LoopFree(gr) == \A e \in Edges(gr) : gr.src[e] # gr.dst[e]

SameStructure(a, b) == a.n = b.n /\ a.src = b.src /\ a.dst = b.dst

Supported(opn) == opn \in {"mult", "sub"}

\* the last forward call got as far as the message computation of line 90
ReachedMessages == ret.op = "forward" /\ "norm" \in DOMAIN ret.work.edata

\* C1: the relation tensor a forward call returns has shape [2R, out_channels]
\* and is the rel_repr that was passed in times the layer's w_rel
C1_RelationOutput ==
    (ret.op = "forward" /\ ret.err = "") =>
        /\ ret.out_rel.shape = <<Len(ret.args.rel_repr), layer.out_channels>>
        /\ ret.out_rel.val =
               [r \in 1..Len(ret.args.rel_repr) |->
                   VecMat(ret.args.rel_repr[r],
                          w_rel_param(layer.in_channels, layer.out_channels))]

\* C2: after a forward call the caller's graph has the nodes, the edges and the
\* node and edge fields it had when it was passed in
C2_CallerGraphUnchanged ==
    ret.op = "forward" => g = ret.args.g

\* C3: construction accepts any operator tag; with a tag other than mult or sub,
\* comp raises NotImplementedError, and so does every forward call that gets as
\* far as computing a message
C3_UnsupportedOpn ==
    /\ ret.op = "__init__" => (ret.err = "" /\ layer.opn \in Opns)
    /\ (ret.op = "comp" /\ ~Supported(layer.opn)) => ret.err = "NotImplementedError"
    /\ (ret.op = "comp" /\ Supported(layer.opn)) => ret.err = ""
    /\ (ReachedMessages /\ ~Supported(layer.opn)) =>
           (ret.err = "NotImplementedError" /\ ret.line = 52)
    /\ (ret.op = "forward" /\ Supported(layer.opn)) => ret.err # "NotImplementedError"

C3_Witness ==
    /\ ReachedMessages
    /\ Len(ret.args.g.src) >= 1
    /\ layer.opn = "corr"
    /\ ret.err = "NotImplementedError"

\* C4: the working graph of a forward call on a self-loop-free graph of V nodes
\* and E edges holds E + V edges: the E edges passed in, with the type, direction
\* and computed norm of each, then one self-loop per node with type 2R,
\* direction 2 and norm 1.0
C4_WorkingGraph ==
    (ret.op = "forward" /\ LoopFree(ret.args.g)) =>
        LET a == ret.args.g
            V == a.n
            E == Len(a.src)
            wg == ret.work
        IN  /\ Len(wg.src) = E + V
            /\ Len(wg.dst) = E + V
            /\ {"type", "dir", "norm"} \subseteq DOMAIN wg.edata
            /\ \A e \in 1..E :
                   /\ wg.src[e] = a.src[e] /\ wg.dst[e] = a.dst[e]
                   /\ wg.edata.type[e] = ret.args.edge_type[e]
                   /\ wg.edata.dir[e] = ret.args.edge_dir[e]
                   /\ wg.edata.norm[e] = ret.norm.val[e]
            /\ \A v \in 1..V :
                   /\ wg.src[E + v] = v /\ wg.dst[E + v] = v
                   /\ wg.edata.type[E + v] = RelRows
                   /\ wg.edata.dir[E + v] = 2
                   /\ wg.edata.norm[E + v] = 1

\* C5: on a self-loop-free graph compute_norm gives every edge u -> v the value
\* in_degree(v)^(-1/2) * in_degree(u)^(-1/2), which is 0 exactly when u or v has
\* in-degree 0 and positive otherwise (as norm codes: the code dv * du, which
\* is 0 exactly when one of the two in-degrees is)
C5_NormValues ==
    (ret.op = "compute_norm" /\ LoopFree(ret.args.g)) =>
        LET a == ret.args.g
        IN  /\ Len(ret.norm.val) = Len(a.src)
            /\ \A e \in Edges(a) :
                   LET du == InDeg(a, a.src[e])
                       dv == InDeg(a, a.dst[e])
                   IN  /\ ret.norm.val[e] = dv * du
                       /\ ret.norm.val[e] = 0 <=> (du = 0 \/ dv = 0)
                       /\ ret.norm.val[e] >= 0

C5_Witness ==
    /\ ret.op = "compute_norm"
    /\ LoopFree(ret.args.g)
    /\ \E e \in Edges(ret.args.g) :
           InDeg(ret.args.g, ret.args.g.src[e]) = 0 /\ ret.norm.val[e] = 0

\* C6: a forward call computes the norm before it adds the self-loops: the
\* in-degrees in it are those of the graph passed in, so on a self-loop-free
\* graph every edge from a node with no incoming edge has norm 0 although the
\* working graph holds a self-loop on that node
C6_NormBeforeSelfLoops ==
    (ret.op = "forward" /\ LoopFree(ret.args.g)) =>
        LET a == ret.args.g
        IN  /\ Len(ret.norm.val) = Len(a.src)
            /\ \A e \in Edges(a) :
                   /\ ret.norm.val[e] = InDeg(a, a.dst[e]) * InDeg(a, a.src[e])
                   /\ InDeg(a, a.src[e]) = 0 => ret.norm.val[e] = 0
            /\ \A v \in Nodes(a) :
                   \E e \in Edges(ret.work) : ret.work.src[e] = v /\ ret.work.dst[e] = v

C6_Witness ==
    /\ ret.op = "forward"
    /\ LoopFree(ret.args.g)
    /\ \E e \in Edges(ret.args.g) :
           /\ InDeg(ret.args.g, ret.args.g.src[e]) = 0
           /\ ret.norm.val[e] = 0
           /\ InDeg(ret.work, ret.args.g.src[e]) = 1

\* C7: a second compute_norm call on the same graph returns the values of the
\* first, and neither call changes the nodes or the edges of the graph
C7_Idempotent ==
    [][(ret.op = "compute_norm" /\ ret'.op = "compute_norm") =>
           /\ ret'.norm = ret.norm
           /\ SameStructure(ret'.args.g, ret.args.g)
           /\ SameStructure(g', ret.args.g)]_vars

C7_Witness ==
    /\ ret.op = "compute_norm"
    /\ Len(ret.args.g.src) >= 1
    /\ "xxx" \in DOMAIN ret.args.g.edata
    /\ ret.args.g.edata.xxx = ret.norm.val
    /\ SameStructure(g, ret.args.g)

\* C8: in evaluation mode, or with dropout off, two forward calls with the same
\* arguments on the same layer return the same pair of tensors
C8_Deterministic ==
    [][(/\ ret.op = "forward" /\ ret'.op = "forward"
        /\ ret.err = ""
        /\ ret'.args = ret.args
        /\ ~layer.training /\ ~layer'.training) =>
           /\ ret'.err = ""
           /\ ret'.out_x = ret.out_x
           /\ ret'.out_rel = ret.out_rel]_vars

\* the composition of one feature row with one relation row
CompRow(opn, a, b) == [k \in 1..Len(a) |-> IF opn = "mult" THEN a[k] * b[k] ELSE a[k] - b[k]]

\* the relation row of a working edge of type t: a row of rel_repr, or loop_rel
RelRow(t) ==
    IF t = Len(ret.args.rel_repr) THEN loop_rel_param(layer.in_channels)
    ELSE ret.args.rel_repr[t + 1]

\* comp(x[u], rel[type(e)]) * W[dir(e)] for the working edge e
Transformed(e) ==
    VecMat(CompRow(layer.opn, ret.args.x[ret.work.src[e]], RelRow(ret.work.edata.type[e])),
           w_param(layer.in_channels, layer.out_channels)[ret.work.edata.dir[e] + 1])

\* one third of the sum over the working edges e into v of norm(e) * Transformed(e)
ExpectedH(v) ==
    LET wg == ret.work
        E2 == Len(wg.src)
        into == {e \in 1..E2 : wg.dst[e] = v /\ wg.edata.norm[e] # 0}
    IN  [num |-> [k \in {wg.edata.norm[e] : e \in into} |->
                    [j \in 1..layer.out_channels |->
                        SumTo([e \in 1..E2 |-> IF e \in into /\ wg.edata.norm[e] = k
                                               THEN Transformed(e)[j] ELSE 0], E2)]],
         den |-> 3]

\* C9: with a supported operator and dropout off, the hidden state of node v
\* before the bias and the batch norm is one third of the sum, over the working
\* edges u -> v with v's self-loop among them, of
\* norm(e) * (comp(x[u], rel[type(e)]) * W[dir(e)])
C9_HiddenState ==
    (/\ ret.op = "forward"
     /\ Supported(layer.opn)
     /\ ~(layer.training /\ layer.drop_rate > 0)
     /\ LoopFree(ret.args.g)) =>
        /\ "norm" \in DOMAIN ret.work.edata
        /\ Len(ret.h) = ret.args.g.n
        /\ \A v \in Nodes(ret.args.g) : ret.h[v] = ExpectedH(v)

\* C10: every relation index of the working graph is a row of the layer's working
\* relation matrix, which is rel_repr with loop_rel as its last row, every
\* direction index is 0, 1 or 2, and the index 2R and the direction 2 are those
\* of the self-loops the call added and of no other edge
C10_IndicesInRange ==
    ReachedMessages =>
        LET wg == ret.work
            E == Len(ret.args.g.src)
            R2 == Len(ret.args.rel_repr)
        IN  /\ Len(layer.rel) = R2 + 1
            /\ layer.rel[R2 + 1] = loop_rel_param(layer.in_channels)
            /\ \A r \in 1..R2 : layer.rel[r] = ret.args.rel_repr[r]
            /\ \A e \in Edges(wg) :
                   /\ wg.edata.type[e] \in 0..(Len(layer.rel) - 1)
                   /\ wg.edata.dir[e] \in 0..(NumDirs - 1)
                   /\ (wg.edata.type[e] = R2 \/ wg.edata.dir[e] = 2) <=> e > E
                   /\ e > E => wg.src[e] = wg.dst[e]
            /\ ret.err # "IndexError"

C10_Witness ==
    /\ ReachedMessages
    /\ ret.line = 95
    /\ \E e \in Edges(ret.args.g) : ret.work.edata.type[e] = RelRows - 1
    /\ \E e \in Edges(ret.work) : ret.work.edata.type[e] = RelRows /\ ret.work.edata.dir[e] = 2

====
